---- MODULE Spec2Model ----
(***************************************************************************)
(* Model of package zipf (src/zipf.go): the frequency table z.words, the   *)
(* report buffer z.collection, the embedded sync.RWMutex and the output    *)
(* sink, driven by goroutines that call Add and Report, and by Run.        *)
(***************************************************************************)
EXTENDS Integers, Sequences, FiniteSets, TLC

\* ---------------------------------------------------------------- bounds
NWorkers == 2
MaxAdds == 3
MaxReports == 2
ConcAdds == 3
ConcReports == 1
MaxLimit == 2
MaxEntries == 2
MaxLines == 2

Workers == 1..NWorkers
Terms == {"", "a", "b"}
Limits == -1..MaxLimit

VARIABLES
  words,       \* z.words: map[string]int64, a function on the keys present
  collection,  \* z.collection: []Term
  out,         \* z.out: the lines written to the sink so far
  readers,     \* z.RWMutex: number of holders of the read lock
  limit,       \* z.limit
  pc,          \* per goroutine: position inside Add / Report
  arg,         \* per goroutine: parameter s of the running Add
  count,       \* per goroutine: local count of the running Add
  ri,          \* per goroutine: local i of the running Report
  seen,        \* per goroutine: keys already produced by Report's range
  ret,         \* per goroutine: value returned by its last call
  fatal,       \* the Go runtime aborted the process (concurrent map access)
  succ,        \* history: per term, number of Add calls that returned nil
  call,        \* history: the latest call issued one at a time, and the table then
  nadds,       \* history: number of Add calls started
  nreports,    \* history: number of Report calls started
  symbols,     \* z.symbols
  rpc,         \* position of the goroutine executing Run ("none": no Run)
  lines,       \* Walk callback: lines of the current file not yet processed
  line,        \* Walk callback: the current line
  toks,        \* Walk callback: tokens of the current line not yet added
  phase,       \* Walk callback: which token loop is running
  scanErr,     \* readLines: scan.Err() of the current file is non-nil
  handles,     \* number of open file handles
  walkRet,     \* value returned by Walk
  runRet,      \* value returned by Run
  nentries,    \* history: number of tree entries visited by filepath.Walk
  unread,      \* history: number of entries that could not be opened or read
  due,         \* history: per term, the token occurrences of the lines read so far
  tokfail,     \* history: a tokenizer failed on a line read so far
  path,        \* z.path
  z,           \* the *Zipf returned by New ("nil": none)
  newRet,      \* value returned by New
  given        \* history: the arguments New was called with

zvars == <<words, collection, out, readers, limit>>
tvars == <<pc, arg, count, ri, seen, ret>>
hvars == <<fatal, succ, call, nadds, nreports>>
rvars == <<symbols, rpc, lines, line, toks, phase, scanErr, handles, walkRet, runRet,
           nentries, unread>>
xvars == <<due, tokfail, path, z, newRet, given>>
vars == <<zvars, tvars, hvars, rvars, xvars>>

\* ------------------------------------------------------------- map helpers
EmptyMap == [t \in {} |-> 0]

\* v := m[t]: the zero value when t is not a key
Get(m, t) == IF t \in DOMAIN m THEN m[t] ELSE 0

\* m[t] = v
Put(m, t, v) == [x \in (DOMAIN m) \cup {t} |-> IF x = t THEN v ELSE m[x]]

Min(a, b) == IF a < b THEN a ELSE b

NoCall == [op |-> "none", who |-> 0, arg |-> "", words |-> EmptyMap, outlen |-> 0,
           prev |-> -1]

\* --------------------------------------------------------------------- Add
AddRLock(w, s) ==
  /\ pc[w] = "idle"
  /\ readers' = readers + 1
  /\ pc' = [pc EXCEPT ![w] = "a_read"]
  /\ arg' = [arg EXCEPT ![w] = s]
  /\ nadds' = nadds + 1
  /\ UNCHANGED <<words, collection, out, limit, count, ri, seen, ret, fatal, succ, nreports>>

\* AddRead without the test s == ""
AddRead_NoEmptyCheck(w) ==
  /\ pc[w] = "a_read"
  /\ count' = [count EXCEPT ![w] = Get(words, arg[w])]
  /\ pc' = [pc EXCEPT ![w] = IF arg[w] \in DOMAIN words THEN "a_write" ELSE "a_insert"]
  /\ UNCHANGED <<ret, readers>>
  /\ UNCHANGED <<words, collection, out, limit, arg, ri, seen, hvars, rvars, xvars>>

AddRead(w) ==
  /\ pc[w] = "a_read"
  /\ IF arg[w] = ""
       THEN /\ ret' = [ret EXCEPT ![w] = "empty word"]
            /\ readers' = readers - 1
            /\ pc' = [pc EXCEPT ![w] = "idle"]
            /\ UNCHANGED count
       ELSE /\ count' = [count EXCEPT ![w] = Get(words, arg[w])]
            /\ pc' = [pc EXCEPT ![w] = IF arg[w] \in DOMAIN words THEN "a_write" ELSE "a_insert"]
            /\ UNCHANGED <<ret, readers>>
  /\ UNCHANGED <<words, collection, out, limit, arg, ri, seen, hvars, rvars, xvars>>

\* AddInsert storing the count read (0) instead of 1
AddInsert_Zero(w) ==
  /\ pc[w] = "a_insert"
  /\ words' = Put(words, arg[w], count[w])
  /\ pc' = [pc EXCEPT ![w] = "a_write"]
  /\ UNCHANGED <<collection, out, readers, limit, arg, count, ri, seen, ret, hvars, rvars, xvars>>

AddInsert(w) ==
  /\ pc[w] = "a_insert"
  /\ words' = Put(words, arg[w], 1)
  /\ pc' = [pc EXCEPT ![w] = "a_write"]
  /\ UNCHANGED <<collection, out, readers, limit, arg, count, ri, seen, ret, hvars, rvars, xvars>>

\* AddWrite storing count instead of count + 1
AddWrite_NoIncrement(w) ==
  /\ pc[w] = "a_write"
  /\ words' = Put(words, arg[w], count[w])
  /\ readers' = readers - 1
  /\ ret' = [ret EXCEPT ![w] = "nil"]
  /\ pc' = [pc EXCEPT ![w] = "idle"]
  /\ arg' = [arg EXCEPT ![w] = ""]
  /\ count' = [count EXCEPT ![w] = 0]
  /\ succ' = [succ EXCEPT ![arg[w]] = @ + 1]
  /\ UNCHANGED <<collection, out, limit, ri, seen, fatal, call, nadds, nreports, rvars, xvars>>

\* the last store, return nil and the deferred RUnlock
AddWrite(w) ==
  /\ pc[w] = "a_write"
  /\ words' = Put(words, arg[w], count[w] + 1)
  /\ readers' = readers - 1
  /\ ret' = [ret EXCEPT ![w] = "nil"]
  /\ pc' = [pc EXCEPT ![w] = "idle"]
  /\ arg' = [arg EXCEPT ![w] = ""]
  /\ count' = [count EXCEPT ![w] = 0]
  /\ succ' = [succ EXCEPT ![arg[w]] = @ + 1]
  /\ UNCHANGED <<collection, out, limit, ri, seen, fatal, call, nadds, nreports, rvars, xvars>>

\* ------------------------------------------------------------------ Report
Term(k, c) == [Word |-> k, Count |-> c]

\* ByCountAsc.Less
Less(x, y) == x.Count < y.Count

RECURSIVE SortOrders(_, _)
\* the index orders sort.Sort may leave c in: ascending by Less, ties in any order
SortOrders(c, S) ==
  IF S = {} THEN {<<>>}
  ELSE LET least == {i \in S : \A j \in S : ~Less(c[j], c[i])}
       IN UNION {{<<i>> \o rest : rest \in SortOrders(c, S \ {i})} : i \in least}

Sorted(c) == {[n \in 1..Len(c) |-> c[o[n]]] : o \in SortOrders(c, 1..Len(c))}

\* fmt.Fprintf(z.out, "%s %d\n", x.Word, x.Count)
Line(x) == <<x.Word, x.Count>>

ReportRLock(w) ==
  /\ pc[w] = "idle"
  /\ readers' = readers + 1
  /\ pc' = [pc EXCEPT ![w] = "r_range"]
  /\ ri' = [ri EXCEPT ![w] = 0]
  /\ seen' = [seen EXCEPT ![w] = {}]
  /\ nreports' = nreports + 1
  /\ UNCHANGED <<words, collection, out, limit, arg, count, ret, fatal, succ, nadds>>

\* ReportRange with the cut-off i >= z.limit
ReportRange_OffByOne(w) ==
  /\ pc[w] = "r_range"
  /\ \E k \in (DOMAIN words) \ seen[w] :
       /\ ri' = [ri EXCEPT ![w] = @ + 1]
       /\ seen' = [seen EXCEPT ![w] = @ \cup {k}]
       /\ collection' = IF ri[w] + 1 >= limit
                          THEN collection
                          ELSE Append(collection, Term(k, words[k]))
  /\ UNCHANGED <<words, out, readers, limit, pc, arg, count, ret, hvars, rvars, xvars>>

\* ReportRange testing i > z.limit before i++
ReportRange_LateIncrement(w) ==
  /\ pc[w] = "r_range"
  /\ \E k \in (DOMAIN words) \ seen[w] :
       /\ ri' = [ri EXCEPT ![w] = @ + 1]
       /\ seen' = [seen EXCEPT ![w] = @ \cup {k}]
       /\ collection' = IF ri[w] > limit
                          THEN collection
                          ELSE Append(collection, Term(k, words[k]))
  /\ UNCHANGED <<words, out, readers, limit, pc, arg, count, ret, hvars, rvars, xvars>>

ReportRange(w) ==
  /\ pc[w] = "r_range"
  /\ \E k \in (DOMAIN words) \ seen[w] :
       /\ ri' = [ri EXCEPT ![w] = @ + 1]
       /\ seen' = [seen EXCEPT ![w] = @ \cup {k}]
       /\ collection' = IF ri[w] + 1 > limit
                          THEN collection
                          ELSE Append(collection, Term(k, words[k]))
  /\ UNCHANGED <<words, out, readers, limit, pc, arg, count, ret, hvars, rvars, xvars>>

\* ReportSort without the call of sort.Sort
ReportSort_NoSort(w) ==
  /\ pc[w] = "r_range"
  /\ (DOMAIN words) \ seen[w] = {}
  /\ pc' = [pc EXCEPT ![w] = "r_print"]
  /\ UNCHANGED <<words, collection, out, readers, limit, arg, count, ri, seen, ret,
                 hvars, rvars, xvars>>

ReportSort(w) ==
  /\ pc[w] = "r_range"
  /\ (DOMAIN words) \ seen[w] = {}
  /\ collection' \in Sorted(collection)
  /\ pc' = [pc EXCEPT ![w] = "r_print"]
  /\ UNCHANGED <<words, out, readers, limit, arg, count, ri, seen, ret, hvars, rvars, xvars>>

\* ReportPrint emptying the table once it is printed
ReportPrint_ClearsTable(w) ==
  /\ pc[w] = "r_print"
  /\ out' = out \o [n \in 1..Len(collection) |-> Line(collection[n])]
  /\ words' = EmptyMap
  /\ readers' = readers - 1
  /\ ret' = [ret EXCEPT ![w] = "nil"]
  /\ pc' = [pc EXCEPT ![w] = "idle"]
  /\ ri' = [ri EXCEPT ![w] = 0]
  /\ seen' = [seen EXCEPT ![w] = {}]
  /\ UNCHANGED <<collection, limit, arg, count, hvars, rvars, xvars>>

ReportPrint(w) ==
  /\ pc[w] = "r_print"
  /\ out' = out \o [n \in 1..Len(collection) |-> Line(collection[n])]
  /\ readers' = readers - 1
  /\ ret' = [ret EXCEPT ![w] = "nil"]
  /\ pc' = [pc EXCEPT ![w] = "idle"]
  /\ ri' = [ri EXCEPT ![w] = 0]
  /\ seen' = [seen EXCEPT ![w] = {}]
  /\ UNCHANGED <<words, collection, limit, arg, count, hvars, rvars, xvars>>

\* -------------------------------------------------- unsynchronised map use
\* Add writes z.words holding only the read lock.  When one goroutine is at
\* a map write and another is at any access of the same map, the runtime
\* may detect it ("fatal error: concurrent map writes") and abort the
\* process: every goroutine is gone.
AtMapWrite(w) == pc[w] \in {"a_insert", "a_write"}
AtMapAccess(w) == \/ pc[w] \in {"a_insert", "a_write", "r_range"}
                  \/ pc[w] = "a_read" /\ arg[w] # ""

Fatal(w) ==
  /\ AtMapWrite(w)
  /\ \E v \in Workers \ {w} : AtMapAccess(v)
  /\ fatal' = TRUE
  /\ pc' = [v \in Workers |-> "dead"]
  /\ UNCHANGED <<zvars, arg, count, ri, seen, ret, succ, call, nadds, nreports, rvars, xvars>>

\* ------------------------------------------------------------------- Init
ZInit ==
  /\ words = EmptyMap
  /\ collection = <<>>
  /\ out = <<>>
  /\ readers = 0
  /\ limit \in Limits
  /\ pc = [w \in Workers |-> "idle"]
  /\ arg = [w \in Workers |-> ""]
  /\ count = [w \in Workers |-> 0]
  /\ ri = [w \in Workers |-> 0]
  /\ seen = [w \in Workers |-> {}]
  /\ ret = [w \in Workers |-> "nil"]
  /\ fatal = FALSE
  /\ succ = [t \in Terms |-> 0]
  /\ call = NoCall
  /\ nadds = 0
  /\ nreports = 0

NoLine == [text |-> "", w |-> [err |-> FALSE, toks |-> <<>>], s |-> [err |-> FALSE, toks |-> <<>>]]

RInit ==
  /\ lines = <<>>
  /\ line = NoLine
  /\ toks = <<>>
  /\ phase = "words"
  /\ scanErr = FALSE
  /\ handles = 0
  /\ walkRet = "none"
  /\ runRet = "none"
  /\ nentries = 0
  /\ unread = 0
  /\ due = [t \in Terms |-> 0]
  /\ tokfail = FALSE

\* the state New leaves: the object holds the arguments given
Made ==
  /\ z = "ok"
  /\ path = "dir"
  /\ newRet = "nil"
  /\ given = [dir |-> path, limit |-> limit, symbols |-> symbols]

Init == ZInit /\ RInit /\ symbols = FALSE /\ rpc = "none" /\ Made

\* --------------------------- goroutines calling Add and Report concurrently
CallAdd(w, s) == nadds < ConcAdds /\ AddRLock(w, s) /\ UNCHANGED <<call, rvars, xvars>>
CallReport(w) == nreports < ConcReports /\ ReportRLock(w) /\ UNCHANGED <<call, rvars, xvars>>

Next ==
  \E w \in Workers :
    \/ \E s \in Terms : CallAdd(w, s)
    \/ AddRead(w)
    \/ AddInsert(w)
    \/ AddWrite(w)
    \/ CallReport(w)
    \/ ReportRange(w)
    \/ ReportSort(w)
    \/ ReportPrint(w)
    \/ Fatal(w)

Spec == Init /\ [][Next]_vars

\* ----------------------------------- calls issued one at a time (no overlap)
AllIdle == \A w \in Workers : pc[w] = "idle"

\* prev: the number of lines the call just before wrote if it was a Report, else -1
Calling(op, w, s) ==
  [op |-> op, who |-> w, arg |-> s, words |-> words, outlen |-> Len(out),
   prev |-> IF call.op = "Report" THEN Len(out) - call.outlen ELSE -1]

SeqCallAdd(w, s) ==
  /\ AllIdle
  /\ nadds < MaxAdds
  /\ AddRLock(w, s)
  /\ call' = Calling("Add", w, s)
  /\ UNCHANGED <<rvars, xvars>>

SeqCallReport(w) ==
  /\ AllIdle
  /\ nreports < MaxReports
  /\ ReportRLock(w)
  /\ call' = Calling("Report", w, "")
  /\ UNCHANGED <<rvars, xvars>>

SeqNext ==
  \E w \in Workers :
    \/ \E s \in Terms : SeqCallAdd(w, s)
    \/ AddRead(w)
    \/ AddInsert(w)
    \/ AddWrite(w)
    \/ SeqCallReport(w)
    \/ ReportRange(w)
    \/ ReportSort(w)
    \/ ReportPrint(w)

SeqSpec == Init /\ [][SeqNext]_vars

\* --------------------------------------------------------------------- Run
\* The goroutine that executes Run.
Main == CHOOSE w \in Workers : \A v \in Workers : w <= v

Toks(q) == [err |-> FALSE, toks |-> q]
Fails == [err |-> TRUE, toks |-> <<>>]

\* A line of a file, and what the two tokenizers return for it.
LineKinds ==
  { NoLine,
    [text |-> "a a.", w |-> Toks(<<"a", "a">>), s |-> Toks(<<"b">>)],
    [text |-> "?b",   w |-> Fails,              s |-> Toks(<<"b">>)],
    [text |-> "a?",   w |-> Toks(<<"a">>),      s |-> Fails],
    [text |-> "b  a", w |-> Toks(<<"b", "", "a">>), s |-> Toks(<<>>)] }

FileContents == UNION {[1..n -> LineKinds] : n \in 0..MaxLines}

SplitWord(l) == l.w
SplitSymbol(l) == l.s

\* the lines readLines keeps: it drops the empty ones
KeptLines(content) == SelectSeq(content, LAMBDA l : l.text # "")

\* History: what the lines of a file owe the table.  A non-empty line owes its
\* word tokens unless SplitWord fails on it, and, when z.symbols, its symbol
\* tokens unless SplitSymbol fails on it.
Occ(q, t) == Cardinality({n \in 1..Len(q) : q[n] = t})

LineDue(l, t) ==
  IF l.text = "" THEN 0
  ELSE (IF SplitWord(l).err THEN 0 ELSE Occ(SplitWord(l).toks, t))
       + (IF symbols /\ ~SplitSymbol(l).err THEN Occ(SplitSymbol(l).toks, t) ELSE 0)

RECURSIVE FileDue(_, _)
FileDue(content, t) ==
  IF content = <<>> THEN 0
  ELSE LineDue(Head(content), t) + FileDue(Tail(content), t)

FileFails(content) ==
  \E n \in 1..Len(content) :
     /\ content[n].text # ""
     /\ SplitWord(content[n]).err \/ (symbols /\ SplitSymbol(content[n]).err)

\* filepath.Walk reaches a directory: the callback returns nil at once, also
\* when it is called with the error of reading the directory
WalkDir ==
  /\ rpc = "walk"
  /\ nentries < MaxEntries
  /\ nentries' = nentries + 1
  /\ \E readable \in BOOLEAN : unread' = IF readable THEN unread ELSE unread + 1
  /\ UNCHANGED <<zvars, tvars, hvars, symbols, rpc, lines, line, toks, phase, scanErr,
                 handles, walkRet, runRet>>
  /\ UNCHANGED xvars

\* filepath.Walk reaches an entry that is not a directory (or has no FileInfo)
WalkFile ==
  /\ rpc = "walk"
  /\ nentries < MaxEntries
  /\ nentries' = nentries + 1
  /\ rpc' = "open"
  /\ UNCHANGED <<zvars, tvars, hvars, symbols, lines, line, toks, phase, scanErr,
                 handles, walkRet, runRet, unread>>
  /\ UNCHANGED xvars

\* filepath.Walk has visited the whole tree
WalkReturn ==
  /\ rpc = "walk"
  /\ nentries >= 1
  /\ walkRet' = "nil"
  /\ rpc' = "walked"
  /\ UNCHANGED <<zvars, tvars, hvars, symbols, lines, line, toks, phase, scanErr,
                 handles, runRet, nentries, unread>>
  /\ UNCHANGED xvars

\* readLines: os.Open
ReadOpen ==
  /\ rpc = "open"
  /\ \E ok \in BOOLEAN :
       IF ok
         THEN /\ handles' = handles + 1
              /\ rpc' = "scan"
              /\ UNCHANGED <<walkRet, unread>>
         ELSE /\ walkRet' = "open error"
              /\ rpc' = "walked"
              /\ unread' = unread + 1
              /\ UNCHANGED handles
  /\ UNCHANGED <<zvars, tvars, hvars, symbols, lines, line, toks, phase, scanErr,
                 runRet, nentries>>
  /\ UNCHANGED xvars

\* readLines: the scan loop
ReadScan ==
  /\ rpc = "scan"
  /\ \E content \in FileContents, ok \in BOOLEAN :
       /\ lines' = KeptLines(content)
       /\ scanErr' = ~ok
       /\ due' = IF ok THEN [t \in Terms |-> due[t] + FileDue(content, t)] ELSE due
       /\ tokfail' = (tokfail \/ (ok /\ FileFails(content)))
  /\ rpc' = "close"
  /\ UNCHANGED <<path, z, newRet, given>>
  /\ UNCHANGED <<zvars, tvars, hvars, symbols, line, toks, phase, handles, walkRet,
                 runRet, nentries, unread>>

\* ReadClose returning the scan error before f.Close
ReadClose_LeakOnScanErr ==
  /\ rpc = "close"
  /\ handles' = IF scanErr THEN handles ELSE handles - 1
  /\ scanErr' = FALSE
  /\ \E ok \in BOOLEAN :
       IF ok /\ ~scanErr
         THEN /\ rpc' = "lines"
              /\ UNCHANGED <<lines, walkRet, unread>>
         ELSE /\ walkRet' = IF scanErr THEN "read error" ELSE "close error"
              /\ rpc' = "walked"
              /\ lines' = <<>>
              /\ unread' = unread + 1
  /\ UNCHANGED <<zvars, tvars, hvars, symbols, line, toks, phase, runRet, nentries>>
  /\ UNCHANGED xvars

\* readLines: f.Close and return; the callback returns a non-nil error
ReadClose ==
  /\ rpc = "close"
  /\ handles' = handles - 1
  /\ scanErr' = FALSE
  /\ \E ok \in BOOLEAN :
       IF ok /\ ~scanErr
         THEN /\ rpc' = "lines"
              /\ UNCHANGED <<lines, walkRet, unread>>
         ELSE /\ walkRet' = IF ok THEN "read error" ELSE "close error"
              /\ rpc' = "walked"
              /\ lines' = <<>>
              /\ unread' = unread + 1
  /\ UNCHANGED <<zvars, tvars, hvars, symbols, line, toks, phase, runRet, nentries>>
  /\ UNCHANGED xvars

\* head of the loop over the lines: skip an empty line, split the words
LineNext ==
  /\ rpc = "lines"
  /\ lines # <<>>
  /\ lines' = Tail(lines)
  /\ LET l == Head(lines) IN
       IF l.text = "" \/ SplitWord(l).err
         THEN UNCHANGED <<rpc, line, toks, phase>>
         ELSE /\ line' = l
              /\ toks' = SplitWord(l).toks
              /\ phase' = "words"
              /\ rpc' = "toks"
  /\ UNCHANGED <<zvars, tvars, hvars, symbols, scanErr, handles, walkRet, runRet,
                 nentries, unread>>
  /\ UNCHANGED xvars

\* the loop over the lines is over: the callback returns nil
FileDone ==
  /\ rpc = "lines"
  /\ lines = <<>>
  /\ rpc' = "walk"
  /\ line' = NoLine
  /\ UNCHANGED <<zvars, tvars, hvars, symbols, lines, toks, phase, scanErr, handles,
                 walkRet, runRet, nentries, unread>>
  /\ UNCHANGED xvars

\* z.Add(w) in either token loop
TokAdd ==
  /\ rpc = "toks"
  /\ toks # <<>>
  /\ AddRLock(Main, Head(toks))
  /\ toks' = Tail(toks)
  /\ rpc' = "tok_ret"
  /\ UNCHANGED <<call, symbols, lines, line, phase, scanErr, handles, walkRet, runRet,
                 nentries, unread>>
  /\ UNCHANGED xvars

\* TokRet dropping the error of Add
TokRet_IgnoreErr ==
  /\ rpc = "tok_ret"
  /\ pc[Main] = "idle"
  /\ rpc' = "toks"
  /\ UNCHANGED <<walkRet, lines, line, toks, phase>>
  /\ UNCHANGED <<zvars, tvars, hvars, symbols, scanErr, handles, runRet, nentries, unread>>
  /\ UNCHANGED xvars

\* Add has returned: a non-nil error ends the callback and the walk
TokRet ==
  /\ rpc = "tok_ret"
  /\ pc[Main] = "idle"
  /\ IF ret[Main] # "nil"
       THEN /\ walkRet' = ret[Main]
            /\ rpc' = "walked"
            /\ lines' = <<>>
            /\ line' = NoLine
            /\ toks' = <<>>
            /\ phase' = "words"
       ELSE /\ rpc' = "toks"
            /\ UNCHANGED <<walkRet, lines, line, toks, phase>>
  /\ UNCHANGED <<zvars, tvars, hvars, symbols, scanErr, handles, runRet, nentries, unread>>
  /\ UNCHANGED xvars

\* TokDone splitting the symbols whatever z.symbols is
TokDone_AlwaysSymbols ==
  /\ rpc = "toks"
  /\ toks = <<>>
  /\ IF phase = "words" /\ ~SplitSymbol(line).err
       THEN /\ toks' = SplitSymbol(line).toks
            /\ phase' = "symbols"
            /\ UNCHANGED rpc
       ELSE /\ rpc' = "lines"
            /\ phase' = "words"
            /\ UNCHANGED toks
  /\ UNCHANGED <<zvars, tvars, hvars, symbols, lines, line, scanErr, handles, walkRet,
                 runRet, nentries, unread>>
  /\ UNCHANGED xvars

\* a token loop is over: after the words, split the symbols if z.symbols
TokDone ==
  /\ rpc = "toks"
  /\ toks = <<>>
  /\ IF phase = "words" /\ symbols /\ ~SplitSymbol(line).err
       THEN /\ toks' = SplitSymbol(line).toks
            /\ phase' = "symbols"
            /\ UNCHANGED rpc
       ELSE /\ rpc' = "lines"
            /\ phase' = "words"
            /\ UNCHANGED toks
  /\ UNCHANGED <<zvars, tvars, hvars, symbols, lines, line, scanErr, handles, walkRet,
                 runRet, nentries, unread>>
  /\ UNCHANGED xvars

\* Run: Walk returned an error
RunWalkErr ==
  /\ rpc = "walked"
  /\ walkRet # "nil"
  /\ runRet' = walkRet
  /\ rpc' = "done"
  /\ UNCHANGED <<zvars, tvars, hvars, symbols, lines, line, toks, phase, scanErr,
                 handles, walkRet, nentries, unread>>
  /\ UNCHANGED xvars

\* RunReport without the test of Walk's error
RunReport_Always ==
  /\ rpc = "walked"
  /\ ReportRLock(Main)
  /\ rpc' = "report"
  /\ UNCHANGED <<call, symbols, lines, line, toks, phase, scanErr, handles, walkRet, runRet,
                 nentries, unread>>
  /\ UNCHANGED xvars

\* Run: Walk returned nil, call Report
RunReport ==
  /\ rpc = "walked"
  /\ walkRet = "nil"
  /\ ReportRLock(Main)
  /\ rpc' = "report"
  /\ UNCHANGED <<call, symbols, lines, line, toks, phase, scanErr, handles, walkRet, runRet,
                 nentries, unread>>
  /\ UNCHANGED xvars

\* Run: Report has returned
RunReturn ==
  /\ rpc = "report"
  /\ pc[Main] = "idle"
  /\ runRet' = ret[Main]
  /\ rpc' = "done"
  /\ UNCHANGED <<zvars, tvars, hvars, symbols, lines, line, toks, phase, scanErr,
                 handles, walkRet, nentries, unread>>
  /\ UNCHANGED xvars

RunInit == ZInit /\ RInit /\ symbols \in BOOLEAN /\ rpc = "walk" /\ Made

RunNext ==
  \/ WalkDir
  \/ WalkFile
  \/ WalkReturn
  \/ ReadOpen
  \/ ReadScan
  \/ ReadClose
  \/ LineNext
  \/ FileDone
  \/ TokAdd
  \/ TokRet
  \/ TokDone
  \/ AddRead(Main)
  \/ AddInsert(Main)
  \/ AddWrite(Main)
  \/ RunWalkErr
  \/ RunReport
  \/ ReportRange(Main)
  \/ ReportSort(Main)
  \/ ReportPrint(Main)
  \/ RunReturn

RunSpec == RunInit /\ [][RunNext]_vars

\* --------------------------------------------------------------------- New
Dirs == {"", "dir"}

NoArgs == [dir |-> "", limit |-> 0, symbols |-> FALSE]

\* Before New is called: there is no object, every field has its zero value.
NewInit ==
  /\ words = EmptyMap
  /\ collection = <<>>
  /\ out = <<>>
  /\ readers = 0
  /\ limit = 0
  /\ pc = [w \in Workers |-> "idle"]
  /\ arg = [w \in Workers |-> ""]
  /\ count = [w \in Workers |-> 0]
  /\ ri = [w \in Workers |-> 0]
  /\ seen = [w \in Workers |-> {}]
  /\ ret = [w \in Workers |-> "nil"]
  /\ fatal = FALSE
  /\ succ = [t \in Terms |-> 0]
  /\ call = NoCall
  /\ nadds = 0
  /\ nreports = 0
  /\ RInit
  /\ symbols = FALSE
  /\ rpc = "new"
  /\ path = ""
  /\ z = "nil"
  /\ newRet = "none"
  /\ given = NoArgs

\* New without the test dir == ""
New_NoDirCheck ==
  /\ rpc = "new"
  /\ \E dir \in Dirs, lim \in Limits, sym \in BOOLEAN :
       /\ given' = [dir |-> dir, limit |-> lim, symbols |-> sym]
       /\ z' = "ok"
       /\ path' = dir
       /\ limit' = lim
       /\ symbols' = sym
       /\ words' = EmptyMap
       /\ newRet' = "nil"
       /\ rpc' = "made"
  /\ UNCHANGED <<collection, out, readers, tvars, hvars, lines, line, toks, phase, scanErr,
                 handles, walkRet, runRet, nentries, unread, due, tokfail>>

New ==
  /\ rpc = "new"
  /\ \E dir \in Dirs, lim \in Limits, sym \in BOOLEAN :
       /\ given' = [dir |-> dir, limit |-> lim, symbols |-> sym]
       /\ IF dir = ""
            THEN /\ newRet' = "empty dir"
                 /\ rpc' = "failed"
                 /\ UNCHANGED <<z, path, limit, symbols, words>>
            ELSE /\ z' = "ok"
                 /\ path' = dir
                 /\ limit' = lim
                 /\ symbols' = sym
                 /\ words' = EmptyMap
                 /\ newRet' = "nil"
                 /\ rpc' = "made"
  /\ UNCHANGED <<collection, out, readers, tvars, hvars, lines, line, toks, phase, scanErr,
                 handles, walkRet, runRet, nentries, unread, due, tokfail>>

\* Run is called on the object New returned: z.Walk(z.path)
RunCall ==
  /\ rpc = "made"
  /\ z = "ok"
  /\ rpc' = "walk"
  /\ UNCHANGED <<zvars, tvars, hvars, symbols, lines, line, toks, phase, scanErr,
                 handles, walkRet, runRet, nentries, unread, xvars>>

NewNext ==
  \/ New
  \/ RunCall
  \/ RunNext

NewSpec == NewInit /\ [][NewNext]_vars

\* ================================================================== claims
\* The lines written by the most recently started Report call.
Written == SubSeq(out, call.outlen + 1, Len(out))

\* A call has completed and no other call is running.
Returned(op) == AllIdle /\ call.op = op

\* C1: once all concurrent Add calls have returned, the count stored for each
\* non-empty term equals the number of Add calls of that term that returned nil.
C1_NoLostIncrement ==
  AllIdle => \A t \in Terms \ {""} : Get(words, t) = succ[t]

\* C2: an Add(t) with t non-empty that runs alone returns nil and leaves the
\* table as it was at the call except that t's count is one more (1 if absent).
C2_AddIncrements ==
  (Returned("Add") /\ call.arg # "") =>
     /\ ret[call.who] = "nil"
     /\ words = Put(call.words, call.arg, Get(call.words, call.arg) + 1)

C2_Witness ==
  /\ Returned("Add")
  /\ call.arg \in DOMAIN call.words
  /\ \E t \in DOMAIN call.words : t # call.arg
  /\ words[call.arg] = 2

\* C3: the step an Add("") call takes after locking returns the error and
\* leaves the table unchanged, in every interleaving, and the empty string is
\* never a key of the table.  (A step to "dead" is the runtime's abort, caused
\* by other goroutines' map writes, not a step of the call.)
C3_Step ==
  \A w \in Workers :
     (pc[w] = "a_read" /\ arg[w] = "" /\ pc'[w] \notin {pc[w], "dead"}) =>
        /\ pc'[w] = "idle"
        /\ ret'[w] = "empty word"
        /\ words' = words

C3_EmptyAddFails == [][C3_Step]_vars /\ []("" \notin DOMAIN words)

C3_Witness ==
  \E w \in Workers :
     /\ pc[w] = "idle"
     /\ ret[w] = "empty word"
     /\ DOMAIN words # {}
     /\ \E v \in Workers : pc[v] = "a_write"

\* C4: in every state, also in the middle of concurrent Add calls, every term
\* present in the table has a count of at least 1.
C4_CountsPositive == \A t \in DOMAIN words : words[t] >= 1

C4_Witness ==
  \E w, v \in Workers :
     /\ w # v
     /\ pc[w] = "a_write"
     /\ pc[v] = "a_write"
     /\ arg[w] = arg[v]
     /\ count[w] = 0
     /\ arg[w] \in DOMAIN words

\* C5: every Report call, after any sequence of earlier Add and Report calls,
\* writes at most min(limit, number of terms) lines (the configuration has
\* limit >= 0).
C5_AtMostMin ==
  (Returned("Report") /\ limit >= 0) =>
     Len(Written) <= Min(limit, Cardinality(DOMAIN call.words))

\* C6: the first Report call on an instance writes exactly min(limit, number
\* of terms) lines, each a term of the table with the count the table holds,
\* no term twice (the configuration has limit >= 0).
C6_FirstReport ==
  (Returned("Report") /\ nreports = 1 /\ limit >= 0) =>
     /\ Len(Written) = Min(limit, Cardinality(DOMAIN words))
     /\ \A n \in 1..Len(Written) :
          /\ Written[n][1] \in DOMAIN words
          /\ Written[n][2] = words[Written[n][1]]
          /\ \A m \in 1..Len(Written) : m # n => Written[m][1] # Written[n][1]

C6_Witness ==
  /\ Returned("Report")
  /\ nreports = 1
  /\ limit = 1
  /\ Cardinality(DOMAIN words) = 2
  /\ Len(Written) = 1

C8_LimitZero == limit = 0 => out = <<>>

C8_Witness ==
  /\ limit = 0
  /\ Returned("Report")
  /\ nreports = 2
  /\ DOMAIN words # {}

\* C9: Report is never inside its read of the table while an Add is between
\* its read of the term's count and its write of the new count.
C9_ReportExcludesAdd ==
  \A r, a \in Workers : ~(pc[r] = "r_range" /\ pc[a] \in {"a_insert", "a_write"})

\* C10: Run invokes Report at most once, only after Walk returned nil (no Add
\* running); when Run is over, Report was invoked exactly once if Walk returned
\* nil, and if Walk returned an error Run returned it, Report was never
\* invoked and nothing was written.
C10_ReportAfterWalk ==
  /\ nreports <= 1
  /\ nreports = 1 => /\ walkRet = "nil"
                     /\ rpc \in {"report", "done"}
                     /\ nadds = succ["a"] + succ["b"]
  /\ pc[Main] \in {"r_range", "r_print"} => rpc = "report"
  /\ rpc = "done" =>
       IF walkRet = "nil"
         THEN nreports = 1 /\ runRet = "nil"
         ELSE runRet = walkRet /\ nreports = 0 /\ out = <<>>

C10_Witness ==
  /\ rpc = "done"
  /\ walkRet = "nil"
  /\ nreports = 1
  /\ nadds >= 2
  /\ out # <<>>

\* C11: after a walk that returned nil, every term's count is what the lines
\* read owe it when a tokenizer failure drops only the failing kind of token:
\* a line whose word split failed still has its symbol tokens counted when
\* z.symbols, and a line whose symbol split failed keeps its words.
C11_FailingKindOnly ==
  walkRet = "nil" => \A t \in Terms : Get(words, t) = due[t]

RECURSIVE SumDue(_)
SumDue(S) ==
  IF S = {} THEN 0
  ELSE LET t == CHOOSE x \in S : TRUE IN due[t] + SumDue(S \ {t})

C12_UnreadableAborts ==
  /\ unread > 0 => rpc \notin {"open", "scan", "close", "lines", "toks", "tok_ret"}
  /\ walkRet = "nil" => unread = 0

\* C13: when Add returns the empty-token error to the walk, Walk returns that
\* error at once, and from then on no Add is called and the table keeps the
\* counts it had.
C13_Step ==
  /\ (rpc = "tok_ret" /\ pc[Main] = "idle" /\ ret[Main] = "empty word" /\ rpc' # rpc) =>
        /\ rpc' = "walked"
        /\ walkRet' = "empty word"
        /\ words' = words
  /\ walkRet = "empty word" =>
        /\ walkRet' = walkRet
        /\ words' = words
        /\ nadds' = nadds
        /\ nentries' = nentries

C13_EmptyTokenAborts == [][C13_Step]_vars

C13_Witness ==
  /\ rpc = "done"
  /\ runRet = "empty word"
  /\ Get(words, "b") >= 1
  /\ due["a"] > Get(words, "a")
  /\ nentries < MaxEntries

\* C14: New with an empty path returns the error and no object, and nothing
\* is traversed; New with a non-empty path returns an object with an empty
\* table whose path, limit and symbols flag are the arguments given.
C14_New ==
  /\ (newRet # "none" /\ given.dir = "") =>
        /\ newRet = "empty dir"
        /\ z = "nil"
        /\ rpc = "failed"
        /\ nentries = 0
        /\ nadds = 0
  /\ (newRet # "none" /\ given.dir # "") =>
        /\ newRet = "nil"
        /\ z = "ok"
        /\ path = given.dir
        /\ limit = given.limit
        /\ symbols = given.symbols
  /\ rpc = "made" => (words = EmptyMap /\ collection = <<>>)

C14_Witness ==
  /\ rpc = "made"
  /\ z = "ok"
  /\ path = "dir"
  /\ limit = 1
  /\ symbols

\* C15: at most one file handle is open at any time, and none is open outside
\* readLines: not when the next file is about to be opened, not while lines
\* are processed, not when Walk has returned, with or without an error.
C15_HandlesClosed ==
  /\ handles <= 1
  /\ rpc \notin {"scan", "close"} => handles = 0

C15_Witness ==
  /\ rpc = "done"
  /\ walkRet = "read error"
  /\ nentries = 2
  /\ nadds >= 1
  /\ handles = 0

\* C17: a Report call that directly follows another Report call (no Add in
\* between) writes as many lines as that one did, and writes no term twice.
C17_ReportStateless ==
  (Returned("Report") /\ call.prev >= 0) =>
     /\ Len(Written) = call.prev
     /\ \A m, n \in 1..Len(Written) : m # n => Written[m][1] # Written[n][1]

\* C18: a Report call leaves the table as it was when the call was made.
C18_ReportKeepsTable == Returned("Report") => words = call.words

C18_Witness ==
  /\ Returned("Report")
  /\ Cardinality(DOMAIN words) = 2
  /\ \E t \in DOMAIN words : words[t] = 2
  /\ Len(Written) >= 1

\* C19: in every step of every interleaving of Add and Report calls, a term
\* that is present stays present and no term's count (0 when absent) drops.
C19_Step ==
  \A t \in Terms :
     /\ t \in DOMAIN words => t \in DOMAIN words'
     /\ Get(words', t) >= Get(words, t)

C19_NeverShrinks == [][C19_Step]_vars

====
